---- MODULE Spec2Model ----
(***************************************************************************)
(* Model of demo_grupo7.py: the transmission-line computation engine       *)
(* (TransmissionLineAnalyzer), the input validation and the Streamlit      *)
(* script main() that drives them.                                         *)
(*                                                                         *)
(* Numbers.  The code computes in IEEE doubles.  The model computes in     *)
(* exact arithmetic over the field Q(sqrt 3): a number is                  *)
(* (A + B*sqrt(3)) / D with A, B arbitrary-precision integers and D a      *)
(* positive arbitrary-precision natural, so that np.sqrt(3) is exact and   *)
(* no product is cut to a machine word.  On top of it sit the IEEE special *)
(* values +inf, -inf and nan, which numpy produces instead of raising, and *)
(* the exceptions Python raises (ZeroDivisionError).  Rounding of doubles  *)
(* and overflow of finite doubles to inf are not modelled.                 *)
(***************************************************************************)
EXTENDS Integers, Sequences, FiniteSets, TLC

(***************************************************************************)
(* Arithmetic.  One recursive operator, Arith(op, a), evaluates every      *)
(* arithmetic operation op on the argument tuple a; the operations are     *)
(* named below and call each other through it.                             *)
(*                                                                         *)
(* N...  arbitrary-precision naturals: little-endian digit sequences in    *)
(*       base Base, without a leading (most significant) zero digit;       *)
(*       <<>> is 0.                                                        *)
(* Z...  arbitrary-precision integers: a sign s in {-1, 0, 1} and a        *)
(*       magnitude m.                                                      *)
(* S...  numbers of Q(sqrt 3): [A, B, D] stands for (A + B*sqrt(3)) / D,   *)
(*       D > 0.  The representation is not reduced to lowest terms:        *)
(*       numbers are compared with SEq, SLess and SSign, never with =.     *)
(* X...  IEEE values as numpy produces them: a finite number, +inf, -inf   *)
(*       or nan.                                                           *)
(***************************************************************************)
Base == 100 * 100

RECURSIVE NatOf(_)
NatOf(n) == IF n = 0 THEN <<>> ELSE <<n % Base>> \o NatOf(n \div Base)

NDigit(x, i) == IF i <= Len(x) THEN x[i] ELSE 0

ZMake(s, m) == IF m = <<>> THEN [s |-> 0, m |-> <<>>] ELSE [s |-> s, m |-> m]

ZOf(i) == IF i < 0 THEN ZMake(-1, NatOf(-i)) ELSE ZMake(1, NatOf(i))

Fin(v) == [k |-> "fin", s |-> 0, v |-> v]

SZero == [A |-> ZOf(0), B |-> ZOf(0), D |-> NatOf(1)]

Inf(s) == [k |-> "inf", s |-> s, v |-> SZero]

NaN == [k |-> "nan", s |-> 0, v |-> SZero]

RECURSIVE Arith(_, _)
Arith(op, a) ==
    LET x == a[1]
        y == a[2]
        NTrim(p) == Arith("NTrim", <<p>>)
        NAddFrom(p, q, i, c) == Arith("NAddFrom", <<p, q, i, c>>)
        NAdd(p, q) == Arith("NAddFrom", <<p, q, 1, 0>>)
        NSubFrom(p, q, i, b) == Arith("NSubFrom", <<p, q, i, b>>)
        NSub(p, q) == Arith("NSub", <<p, q>>)
        NMulDigitFrom(p, d, i, c) == Arith("NMulDigitFrom", <<p, d, i, c>>)
        NMulFrom(p, q, j) == Arith("NMulFrom", <<p, q, j>>)
        NMul(p, q) == Arith("NMul", <<p, q>>)
        NCmpFrom(p, q, i) == Arith("NCmpFrom", <<p, q, i>>)
        NCmp(p, q) == Arith("NCmp", <<p, q>>)
        ZNeg(p) == ZMake(-p.s, p.m)
        ZMul(p, q) == ZMake(p.s * q.s, Arith("NMul", <<p.m, q.m>>))
        ZAdd(p, q) == Arith("ZAdd", <<p, q>>)
        ZSub(p, q) == Arith("ZAdd", <<p, ZMake(-q.s, q.m)>>)
        SMake(p, q, d) == Arith("SMake", <<p, q, d>>)
        Sign(p) == IF p.k = "fin" THEN Arith("SSign", <<p.v>>) ELSE p.s
    \* the arguments are evaluated on entry, before the operation is chosen
    IN  IF Len(a) = 0 THEN a ELSE
        CASE op = "NTrim" ->
               IF x = <<>> THEN <<>>
               ELSE IF x[Len(x)] = 0 THEN NTrim(SubSeq(x, 1, Len(x) - 1)) ELSE x
          [] op = "NAddFrom" ->
               IF a[3] > Len(x) /\ a[3] > Len(y)
               THEN (IF a[4] = 0 THEN <<>> ELSE <<a[4]>>)
               ELSE LET s == NDigit(x, a[3]) + NDigit(y, a[3]) + a[4]
                    IN  <<s % Base>> \o NAddFrom(x, y, a[3] + 1, s \div Base)
          [] op = "NSubFrom" ->
               IF a[3] > Len(x) THEN <<>>
               ELSE LET s == x[a[3]] - NDigit(y, a[3]) - a[4]
                    IN  IF s < 0 THEN <<s + Base>> \o NSubFrom(x, y, a[3] + 1, 1)
                                 ELSE <<s>> \o NSubFrom(x, y, a[3] + 1, 0)
          \* x - y for x >= y
          [] op = "NSub" -> NTrim(NSubFrom(x, y, 1, 0))
          [] op = "NMulDigitFrom" ->
               IF a[3] > Len(x) THEN (IF a[4] = 0 THEN <<>> ELSE <<a[4]>>)
               ELSE LET p == x[a[3]] * y + a[4]
                    IN  <<p % Base>> \o NMulDigitFrom(x, y, a[3] + 1, p \div Base)
          [] op = "NMulFrom" ->
               IF a[3] > Len(y) THEN <<>>
               ELSE LET rest == NMulFrom(x, y, a[3] + 1)
                    IN  NAdd(NMulDigitFrom(x, y[a[3]], 1, 0),
                             IF rest = <<>> THEN <<>> ELSE <<0>> \o rest)
          [] op = "NMul" ->
               IF x = <<>> \/ y = <<>> THEN <<>> ELSE NTrim(NMulFrom(x, y, 1))
          [] op = "NCmpFrom" ->
               IF a[3] = 0 THEN 0
               ELSE IF x[a[3]] < y[a[3]] THEN -1
               ELSE IF x[a[3]] > y[a[3]] THEN 1
               ELSE NCmpFrom(x, y, a[3] - 1)
          \* -1, 0 or 1 as x < y, x = y, x > y
          [] op = "NCmp" ->
               IF Len(x) < Len(y) THEN -1
               ELSE IF Len(x) > Len(y) THEN 1
               ELSE NCmpFrom(x, y, Len(x))
          [] op = "ZAdd" ->
               IF x.s = 0 THEN y
               ELSE IF y.s = 0 THEN x
               ELSE IF x.s = y.s THEN ZMake(x.s, NAdd(x.m, y.m))
               ELSE LET c == NCmp(x.m, y.m)
                    IN  IF c = 0 THEN ZMake(0, <<>>)
                        ELSE IF c > 0 THEN ZMake(x.s, NSub(x.m, y.m))
                        ELSE ZMake(y.s, NSub(y.m, x.m))
          \* a common factor Base of numerators and denominator is cancelled
          [] op = "SMake" ->
               IF x.s = 0 /\ y.s = 0 THEN SZero
               ELSE IF a[3][1] = 0 /\ NDigit(x.m, 1) = 0 /\ NDigit(y.m, 1) = 0
               THEN SMake(ZMake(x.s, SubSeq(x.m, 2, Len(x.m))),
                          ZMake(y.s, SubSeq(y.m, 2, Len(y.m))), Tail(a[3]))
               ELSE [A |-> x, B |-> y, D |-> a[3]]
          [] op = "SNeg" -> [A |-> ZNeg(x.A), B |-> ZNeg(x.B), D |-> x.D]
          [] op = "SAdd" ->
               IF x.D = y.D
               THEN SMake(ZAdd(x.A, y.A), ZAdd(x.B, y.B), x.D)
               ELSE LET xd == ZMake(1, x.D)
                        yd == ZMake(1, y.D)
                    IN  SMake(ZAdd(ZMul(x.A, yd), ZMul(y.A, xd)),
                              ZAdd(ZMul(x.B, yd), ZMul(y.B, xd)),
                              NMul(x.D, y.D))
          [] op = "SMul" ->
               SMake(ZAdd(ZMul(x.A, y.A), ZMul(ZOf(3), ZMul(x.B, y.B))),
                     ZAdd(ZMul(x.A, y.B), ZMul(x.B, y.A)),
                     NMul(x.D, y.D))
          \* sign of A + B*sqrt(3): by the signs when they agree, else by
          \* A^2 against 3*B^2
          [] op = "SSign" ->
               IF x.B.s = 0 THEN x.A.s
               ELSE IF x.A.s = 0 \/ x.A.s = x.B.s THEN x.B.s
               ELSE IF NCmp(NMul(x.A.m, x.A.m),
                            NMul(NatOf(3), NMul(x.B.m, x.B.m))) > 0
                    THEN x.A.s
                    ELSE x.B.s
          \* x / y for y # 0: x * conj(y) / (y * conj(y)), the norm
          \* A^2 - 3*B^2 being rational
          [] op = "SDiv" ->
               LET yd == ZMake(1, y.D)
                   n  == ZSub(ZMul(y.A, y.A), ZMul(ZOf(3), ZMul(y.B, y.B)))
                   sg == ZOf(n.s)
                   p  == ZSub(ZMul(x.A, y.A), ZMul(ZOf(3), ZMul(x.B, y.B)))
                   q  == ZSub(ZMul(x.B, y.A), ZMul(x.A, y.B))
               IN  SMake(ZMul(sg, ZMul(yd, p)), ZMul(sg, ZMul(yd, q)),
                         NMul(n.m, x.D))
          [] op = "SSub" -> Arith("SAdd", <<x, Arith("SNeg", <<y>>)>>)
          \* -1, 0 or 1 as x < y, x = y, x > y
          [] op = "SCmp" -> Arith("SSign", <<Arith("SSub", <<x, y>>)>>)
          [] op = "XNeg" ->
               IF x.k = "fin" THEN Fin(Arith("SNeg", <<x.v>>))
               ELSE IF x.k = "inf" THEN Inf(-x.s)
               ELSE NaN
          [] op = "XAdd" ->
               IF x.k = "nan" \/ y.k = "nan" THEN NaN
               ELSE IF x.k = "inf" /\ y.k = "inf" THEN (IF x.s = y.s THEN x ELSE NaN)
               ELSE IF x.k = "inf" THEN x
               ELSE IF y.k = "inf" THEN y
               ELSE Fin(Arith("SAdd", <<x.v, y.v>>))
          [] op = "XMul" ->
               IF x.k = "nan" \/ y.k = "nan" THEN NaN
               ELSE IF x.k = "fin" /\ y.k = "fin" THEN Fin(Arith("SMul", <<x.v, y.v>>))
               ELSE IF Sign(x) * Sign(y) = 0 THEN NaN
               ELSE Inf(Sign(x) * Sign(y))
          \* numpy's float64 division: a zero divisor gives +-inf or nan,
          \* never an exception
          [] op = "XDiv" ->
               IF x.k = "nan" \/ y.k = "nan" THEN NaN
               ELSE IF x.k = "inf" /\ y.k = "inf" THEN NaN
               ELSE IF x.k = "inf" THEN Inf(IF Sign(y) < 0 THEN -x.s ELSE x.s)
               ELSE IF y.k = "inf" THEN Fin(SZero)
               ELSE IF Sign(y) = 0
               THEN (IF Sign(x) = 0 THEN NaN ELSE Inf(Sign(x)))
               ELSE Fin(Arith("SDiv", <<x.v, y.v>>))
          [] op = "XSub" -> Arith("XAdd", <<x, Arith("XNeg", <<y>>)>>)
          \* x > y on floats: false when either is nan
          [] op = "XGreater" ->
               /\ x.k # "nan"
               /\ y.k # "nan"
               /\ IF x.k = "inf" /\ y.k = "inf" THEN x.s > y.s
                  ELSE IF x.k = "inf" THEN x.s > 0
                  ELSE IF y.k = "inf" THEN y.s < 0
                  ELSE Arith("SCmp", <<x.v, y.v>>) > 0
          [] op = "XEq" ->
               /\ x.k = y.k
               /\ x.k # "nan"
               /\ IF x.k = "inf" THEN x.s = y.s ELSE Arith("SCmp", <<x.v, y.v>>) = 0

\* the rational n / d, for machine integers n and d > 0
SFrac(n, d) == IF n = 0 THEN SZero ELSE [A |-> ZOf(n), B |-> ZOf(0), D |-> NatOf(d)]

SInt(n) == SFrac(n, 1)

\* np.sqrt(3)
Sqrt3 == [A |-> ZOf(0), B |-> ZOf(1), D |-> NatOf(1)]

SNeg(x) == Arith("SNeg", <<x>>)

SAdd(x, y) == Arith("SAdd", <<x, y>>)

SSub(x, y) == Arith("SSub", <<x, y>>)

SMul(x, y) == Arith("SMul", <<x, y>>)

SDiv(x, y) == Arith("SDiv", <<x, y>>)

SSign(x) == Arith("SSign", <<x>>)

SIsZero(x) == x.A.s = 0 /\ x.B.s = 0

XNeg(x) == Arith("XNeg", <<x>>)

XAdd(x, y) == Arith("XAdd", <<x, y>>)

XSub(x, y) == Arith("XSub", <<x, y>>)

XMul(x, y) == Arith("XMul", <<x, y>>)

XDiv(x, y) == Arith("XDiv", <<x, y>>)

SEq(x, y) == Arith("SCmp", <<x, y>>) = 0

SLess(x, y) == Arith("SCmp", <<x, y>>) < 0

SLeq(x, y) == Arith("SCmp", <<x, y>>) <= 0

XGreater(x, y) == Arith("XGreater", <<x, y>>)

XEq(x, y) == Arith("XEq", <<x, y>>)

XSign(x) == IF x.k = "fin" THEN SSign(x.v) ELSE x.s

\* abs
XAbs(x) ==
    IF x.k = "fin" THEN (IF SSign(x.v) < 0 THEN Fin(SNeg(x.v)) ELSE x)
    ELSE IF x.k = "inf" THEN Inf(1)
    ELSE NaN

XIsZero(x) == x.k = "fin" /\ SIsZero(x.v)

(***************************************************************************)
(* State.                                                                  *)
(*   call      the last call of validate_input_data, or the last direct    *)
(*             call of an engine function: its name, arguments and result  *)
(*   analyzer  the TransmissionLineAnalyzer object (its results_history)   *)
(*   log       the generate_performance_analysis calls made so far, each   *)
(*             with the argument dicts as the caller holds them after the  *)
(*             call and with what the call returned                        *)
(*   clock     the reading time.time() gives next                          *)
(*   session   st.session_state                                            *)
(*   run       the current run of the script main(): its position, the     *)
(*             widget values, the errors validation returned, whether the  *)
(*             button was pressed and whether the run created the analyzer *)
(***************************************************************************)
VARIABLES call, analyzer, log, clock, session, run

vars == <<call, analyzer, log, clock, session, run>>

(***************************************************************************)
(* Python control flow: an evaluation either returns a value or raises.    *)
(***************************************************************************)
Returned(v) == [raised |-> FALSE, val |-> v]

Raised(msg) == [raised |-> TRUE, val |-> msg]

\* except Exception as e: return {"error": f"<prefix>{str(e)}"}
ErrorDict(prefix, e) == "error" :> (prefix \o e)

\* try: <body> except Exception as e: return {"error": f"<prefix>{str(e)}"}
TryExcept(body, prefix) ==
    IF body.raised THEN Returned(ErrorDict(prefix, body.val)) ELSE body

ZeroDivisionError == "float division by zero"

ComplexZeroDivisionError == "complex division by zero"

(***************************************************************************)
(* TransmissionLineAnalyzer.calculate_power_losses                         *)
(***************************************************************************)
\* current_A / (np.pi * 1.77**2): the number v / pi, pi not being in Q(sqrt 3)
OverPi(x) == [k |-> "fin/pi", s |-> 0, v |-> x.v]

\* the early return on voltage_kV <= 0
InvalidVoltageResult ==
    ("current_A" :> Fin(SInt(0))) @@ ("losses_MW" :> Fin(SInt(0)))
        @@ ("efficiency_%" :> Fin(SInt(0))) @@ ("error" :> "Voltaje inválido")

\* current_A = (power_MVA * 1e6) / (np.sqrt(3) * voltage_kV * 1e3): a division by a
\* numpy float, which does not raise
CurrentA(voltage_kV, power_MVA) ==
    XDiv(Fin(SMul(power_MVA, SInt(1000000))),
         Fin(SMul(SMul(Sqrt3, voltage_kV), SInt(1000))))

\* (current_A ** 2) * resistance_ohm: the losses of one phase
LossesOfOnePhase(current_A, resistance_ohm) ==
    XMul(XMul(current_A, current_A), Fin(resistance_ohm))

\* losses_W = 3 * (current_A ** 2) * resistance_ohm
LossesW(current_A, resistance_ohm) ==
    XMul(XMul(Fin(SInt(3)), XMul(current_A, current_A)), Fin(resistance_ohm))

\* (losses_MW / power_MVA) * 100 if power_MVA > 0 else 0: the share lost, not kept
ShareLost(power_MVA, losses_MW) ==
    IF SSign(power_MVA) > 0
    THEN XMul(XDiv(losses_MW, Fin(power_MVA)), Fin(SInt(100)))
    ELSE Fin(SInt(0))

\* the efficiency clamped at 0 from below: max(0, (power_MVA - losses_MW) / power_MVA * 100)
EfficiencyClamped(power_MVA, losses_MW) ==
    IF SSign(power_MVA) > 0 /\ XGreater(Fin(power_MVA), losses_MW)
    THEN XMul(XDiv(XSub(Fin(power_MVA), losses_MW), Fin(power_MVA)), Fin(SInt(100)))
    ELSE Fin(SInt(0))

\* efficiency = ((power_MVA - losses_MW) / power_MVA) * 100 if power_MVA > 0 else 0
Efficiency(power_MVA, losses_MW) ==
    IF SSign(power_MVA) > 0
    THEN XMul(XDiv(XSub(Fin(power_MVA), losses_MW), Fin(power_MVA)), Fin(SInt(100)))
    ELSE Fin(SInt(0))

\* (losses_MW / power_MVA) * 100, whatever power_MVA is
LossesPercentageUnguarded(power_MVA, losses_MW) ==
    XMul(XDiv(losses_MW, Fin(power_MVA)), Fin(SInt(100)))

\* (losses_MW / power_MVA) * 100 if power_MVA > 0 else 0
LossesPercentage(power_MVA, losses_MW) ==
    IF SSign(power_MVA) > 0
    THEN XMul(XDiv(losses_MW, Fin(power_MVA)), Fin(SInt(100)))
    ELSE Fin(SInt(0))

\* current_A / (np.pi * (1.77)**2) if power_MVA > 0 else 0
CurrentDensity(power_MVA, current_A) ==
    IF SSign(power_MVA) > 0
    THEN OverPi(XDiv(current_A, Fin(SMul(SFrac(177, 100), SFrac(177, 100)))))
    ELSE Fin(SInt(0))

\* the try block, no statement of which raises.  Result is the dict returned, of
\* the values the local operators before it are given as the code computes them.
LossesTry(voltage_kV, power_MVA, resistance_ohm) ==
    LET Result(current_A, losses_W, losses_MW) ==
            ("current_A" :> current_A) @@ ("losses_MW" :> losses_MW)
            @@ ("losses_W" :> losses_W)
            @@ ("efficiency_%" :> Efficiency(power_MVA, losses_MW))
            @@ ("losses_percentage" :> LossesPercentage(power_MVA, losses_MW))
            @@ ("current_density_A_per_mm2" :> CurrentDensity(power_MVA, current_A))
        FromLossesW(current_A, losses_W) ==
            Result(current_A, losses_W, XDiv(losses_W, Fin(SInt(1000000))))
        FromCurrent(current_A) ==
            FromLossesW(current_A, LossesW(current_A, resistance_ohm))
    IN  Returned(FromCurrent(CurrentA(voltage_kV, power_MVA)))

\* the function without its check of voltage_kV
calculate_power_losses_unchecked(voltage_kV, power_MVA, resistance_ohm) ==
    TryExcept(LossesTry(voltage_kV, power_MVA, resistance_ohm),
              "Error en cálculo de pérdidas: ")

calculate_power_losses(voltage_kV, power_MVA, resistance_ohm) ==
    IF SSign(voltage_kV) <= 0
    THEN Returned(InvalidVoltageResult)
    ELSE TryExcept(LossesTry(voltage_kV, power_MVA, resistance_ohm),
                   "Error en cálculo de pérdidas: ")

(***************************************************************************)
(* TransmissionLineAnalyzer.calculate_voltage_regulation                   *)
(*                                                                         *)
(* The complex square roots, cosh, sinh, arccos and rect are not computed: *)
(* a quantity that depends on them is a term naming the quantity and the   *)
(* values it is a function of.  What is computed exactly is what decides   *)
(* the control flow: which divisions raise and whether the receiving       *)
(* voltage is zero.                                                        *)
(***************************************************************************)
SYSTEM_FREQUENCY == 60

Term(name, args) == [k |-> "term", s |-> 0, v |-> <<name, args>>]

\* pf_angle = np.arccos(pf_R), negated when lagging
PfAngle(pf_R, lagging) == [arccos |-> pf_R, sign |-> IF lagging THEN -1 ELSE 1]

\* the result returned when V_R_full_load == 0
InvalidReceptionResult ==
    ("regulation_%" :> Inf(1)) @@ ("voltage_drop_kV" :> Fin(SInt(0)))
        @@ ("error" :> "Voltaje de recepción inválido")

\* the try block.  R_ohm / length_km divides Python floats and raises on a zero
\* length; z / y divides Python complex numbers and raises when y = 1j*(w*C_F/length_km)
\* is zero, that is when C_F is; I_R is divided by a numpy float and is inf or nan,
\* not an exception, on a zero voltage.
\* a test of V_R_full_load that never finds it zero
NeverZero(V_R_full_load) == FALSE

\* if V_R_full_load == 0
ReceptionVoltageIsZero(V_R_full_load) == XIsZero(V_R_full_load)

RegulationTry(R_ohm, L_H, C_F, length_km, V_R_kV, S_R_MVA, pf_R, lagging) ==
    IF SIsZero(length_km) THEN Raised(ZeroDivisionError)
    ELSE IF SIsZero(C_F) THEN Raised(ComplexZeroDivisionError)
    ELSE
    LET line == <<SYSTEM_FREQUENCY, R_ohm, L_H, C_F, length_km>>
        Result(V_R_full_load, load) ==
            IF ReceptionVoltageIsZero(V_R_full_load)
            THEN InvalidReceptionResult
            ELSE ("regulation_%" :> Term("regulation", load))
                 @@ ("voltage_drop_kV" :> Term("voltage_drop", load))
                 @@ ("sending_voltage_kV" :> Term("sending_voltage", load))
                 @@ ("no_load_voltage_kV" :> Term("no_load_voltage", load))
                 @@ ("impedance_magnitude_ohm" :>
                         Term("abs(characteristic_impedance)", line))
                 @@ ("propagation_constant" :> Term("abs(propagation_constant)", line))
        FromVoltage(V_R_phase) ==
            Result(XAbs(V_R_phase),
                   <<line, V_R_phase,
                     XDiv(Fin(SMul(S_R_MVA, SInt(1000000))),
                          Fin(SMul(SMul(Sqrt3, V_R_kV), SInt(1000)))),
                     PfAngle(pf_R, lagging)>>)
    IN  Returned(FromVoltage(XDiv(Fin(SMul(V_R_kV, SInt(1000))), Fin(Sqrt3))))

\* the function without its try block: what the body raises, the call raises
calculate_voltage_regulation_unguarded(R_ohm, L_H, C_F, length_km, V_R_kV, S_R_MVA, pf_R, lagging) ==
    RegulationTry(R_ohm, L_H, C_F, length_km, V_R_kV, S_R_MVA, pf_R, lagging)

calculate_voltage_regulation(R_ohm, L_H, C_F, length_km, V_R_kV, S_R_MVA, pf_R, lagging) ==
    TryExcept(RegulationTry(R_ohm, L_H, C_F, length_km, V_R_kV, S_R_MVA, pf_R, lagging),
              "Error en cálculo de regulación: ")

(***************************************************************************)
(* TransmissionLineAnalyzer.verify_corona_effect                           *)
(***************************************************************************)
\* np.log on the ratios the model's arguments produce, to three decimals:
\* <<p, q, m>> stands for ln(p / q) = m / 1000.
LogTable ==
    { <<1, 2, -693>>, <<1, 1, 0>>, <<2, 1, 693>>, <<50, 1, 3912>>,
      <<100, 1, 4605>>, <<200, 1, 5298>>, <<400, 1, 5991>> }

\* np.log: -inf at 0 and nan below it (numpy warns, it does not raise)
NpLog(x) ==
    IF SSign(x) < 0 THEN NaN
    ELSE IF SSign(x) = 0 THEN Inf(-1)
    ELSE LET e == CHOOSE t \in LogTable : SEq(x, SFrac(t[1], t[2]))
         IN  Fin(SFrac(e[3], 1000))

\* the same levels with the thresholds on the other side: >= 20 and >= 10
RiskClassificationInclusive(safety_margin) ==
    IF XGreater(safety_margin, Fin(SInt(20))) \/ XEq(safety_margin, Fin(SInt(20)))
    THEN [risk_level |-> "Riesgo Bajo", risk_color |-> "green",
          recommendation |-> "Operación segura sin riesgo de corona"]
    ELSE IF XGreater(safety_margin, Fin(SInt(10))) \/ XEq(safety_margin, Fin(SInt(10)))
    THEN [risk_level |-> "Riesgo Medio", risk_color |-> "orange",
          recommendation |-> "Monitorear condiciones atmosféricas"]
    ELSE [risk_level |-> "Riesgo Alto", risk_color |-> "red",
          recommendation |-> "Considerar rediseño o cambio de conductor"]

\* the levels decided by the size of the margin, whatever its sign
RiskClassificationByMagnitude(safety_margin) ==
    RiskClassificationInclusive(XAbs(safety_margin))

\* the if / elif / else on safety_margin
RiskClassification(safety_margin) ==
    IF XGreater(safety_margin, Fin(SInt(20)))
    THEN [risk_level |-> "Riesgo Bajo", risk_color |-> "green",
          recommendation |-> "Operación segura sin riesgo de corona"]
    ELSE IF XGreater(safety_margin, Fin(SInt(10)))
    THEN [risk_level |-> "Riesgo Medio", risk_color |-> "orange",
          recommendation |-> "Monitorear condiciones atmosféricas"]
    ELSE [risk_level |-> "Riesgo Alto", risk_color |-> "red",
          recommendation |-> "Considerar rediseño o cambio de conductor"]

\* 21.1 * roughness_factor * delta * conductor_radius_cm, without the logarithm of
\* the spacing
DisruptiveVoltageOfRadius(conductor_radius_cm, DMG_cm, roughness_factor, delta) ==
    Fin(SMul(SMul(SMul(SFrac(211, 10), roughness_factor), delta), conductor_radius_cm))

\* Vd_kV_phase = 21.1 * roughness_factor * delta * conductor_radius_cm * np.log(...)
DisruptiveVoltage(conductor_radius_cm, DMG_cm, roughness_factor, delta) ==
    XMul(Fin(SMul(SMul(SMul(SFrac(211, 10), roughness_factor), delta),
                  conductor_radius_cm)),
         NpLog(SDiv(DMG_cm, conductor_radius_cm)))

\* delta = (3.92 * pressure_cmHg) / (273 + temp_C)
AirDensity(temp_C, pressure_atm) ==
    SDiv(SMul(SFrac(392, 100), SMul(pressure_atm, SInt(76))), SAdd(SInt(273), temp_C))

\* the try block.  The two divisions of Python floats raise on a zero divisor
\* (273 + temp_C, conductor_radius_cm); the divisions by V_op_kV_phase divide numpy
\* floats and give inf or nan.
CoronaTry(V_nominal_kV, conductor_radius_cm, DMG_cm, roughness_factor, temp_C, pressure_atm) ==
    IF SIsZero(SAdd(SInt(273), temp_C)) THEN Raised(ZeroDivisionError)
    ELSE IF SIsZero(conductor_radius_cm) THEN Raised(ZeroDivisionError)
    ELSE
    LET Result(delta, Vd_kV_phase, V_op_kV_phase, safety_margin, risk) ==
            ("operating_voltage_phase_kV" :> V_op_kV_phase)
            @@ ("critical_disruptive_voltage_kV" :> Vd_kV_phase)
            @@ ("air_density_delta" :> Fin(delta))
            @@ ("corona_probable" :> XGreater(V_op_kV_phase, Vd_kV_phase))
            @@ ("safety_margin_%" :> safety_margin)
            @@ ("risk_level" :> risk.risk_level)
            @@ ("risk_color" :> risk.risk_color)
            @@ ("recommendation" :> risk.recommendation)
            @@ ("gradient_kV_per_cm" :> XDiv(V_op_kV_phase, Fin(conductor_radius_cm)))
        FromMargin(delta, Vd_kV_phase, V_op_kV_phase, safety_margin) ==
            Result(delta, Vd_kV_phase, V_op_kV_phase, safety_margin,
                   RiskClassification(safety_margin))
        FromVoltages(delta, Vd_kV_phase, V_op_kV_phase) ==
            FromMargin(delta, Vd_kV_phase, V_op_kV_phase,
                       XMul(XDiv(XSub(Vd_kV_phase, V_op_kV_phase), V_op_kV_phase),
                            Fin(SInt(100))))
        FromDelta(delta) ==
            FromVoltages(delta,
                         DisruptiveVoltage(conductor_radius_cm, DMG_cm,
                                           roughness_factor, delta),
                         XDiv(Fin(V_nominal_kV), Fin(Sqrt3)))
    IN  Returned(FromDelta(AirDensity(temp_C, pressure_atm)))

verify_corona_effect(V_nominal_kV, conductor_radius_cm, DMG_cm, roughness_factor, temp_C, pressure_atm) ==
    TryExcept(CoronaTry(V_nominal_kV, conductor_radius_cm, DMG_cm, roughness_factor,
                        temp_C, pressure_atm),
              "Error en análisis de corona: ")

(***************************************************************************)
(* validate_input_data                                                     *)
(***************************************************************************)
\* RegulatoryStandards.MIN_POWER_FACTOR = 0.85
MIN_POWER_FACTOR == SFrac(85, 100)

\* an f-string message: its fixed text and the value formatted into it
Msg(text, value) == [text |-> text, value |-> value]

When(cond, msg) == IF cond THEN <<msg>> ELSE <<>>

\* current_density_approx > 3e6, where current_density_approx is
\* (power_MVA * 1000) / (np.sqrt(3) * voltage_kV * np.pi * (radius_cm/100)**2):
\* pi is taken out of the quotient and bounded from above by 3.14159266
DensityTooHigh(voltage_kV, power_MVA, radius_cm) ==
    LET Approx(r100) ==
            XDiv(Fin(SMul(power_MVA, SInt(1000))),
                 Fin(SMul(SMul(Sqrt3, voltage_kV), SMul(r100, r100))))
    IN  XGreater(Approx(SDiv(radius_cm, SInt(100))),
                 Fin(SMul(SInt(3000000), SFrac(314159266, 100000000))))

\* the check with < for <=: equal radius and distance pass
GeometryErrorStrict(radius_cm, DMG_cm) ==
    When(SLess(DMG_cm, radius_cm),
         Msg("La distancia media geométrica debe ser mayor al radio del conductor",
             DMG_cm))

\* if DMG_cm <= radius_cm: errors.append(...)
GeometryError(radius_cm, DMG_cm) ==
    When(SLeq(DMG_cm, radius_cm),
         Msg("La distancia media geométrica debe ser mayor al radio del conductor",
             DMG_cm))

validate_input_data(voltage_kV, power_MVA, length_km, resistance_ohm, inductance_H, capacitance_uF, power_factor, radius_cm, DMG_cm) ==
    [errors |->
        When(\A std \in {115, 230, 500} : ~SEq(voltage_kV, SInt(std)),
             Msg("Voltaje {voltage_kV} kV no es estándar en Colombia (115, 230, 500 kV)",
                 voltage_kV))
        \o When(SSign(power_MVA) <= 0 \/ SLess(SInt(2000), power_MVA),
                Msg("Potencia {power_MVA} MVA fuera del rango típico (1-2000 MVA)",
                    power_MVA))
        \o When(SSign(length_km) <= 0 \/ SLess(SInt(1000), length_km),
                Msg("Longitud {length_km} km fuera del rango típico (1-1000 km)",
                    length_km))
        \o When(SSign(resistance_ohm) <= 0,
                Msg("La resistencia debe ser mayor a 0 Ω", resistance_ohm))
        \o When(SLess(power_factor, SFrac(7, 10)) \/ SLess(SInt(1), power_factor),
                Msg("Factor de potencia {power_factor} fuera del rango válido (0.7-1.0)",
                    power_factor))
        \o GeometryError(radius_cm, DMG_cm),
     warnings |->
        When(SLess(power_factor, MIN_POWER_FACTOR),
             Msg("Factor de potencia {power_factor:.2f} es bajo. Se recomienda > 0.85",
                 power_factor))
        \o When(SSign(voltage_kV) > 0 /\ SSign(power_MVA) > 0
                    /\ DensityTooHigh(voltage_kV, power_MVA, radius_cm),
                Msg("Densidad de corriente muy alta", radius_cm))]

(***************************************************************************)
(* Direct calls of the engine's functions and of validate_input_data, on   *)
(* arguments from bounded sets.                                            *)
(***************************************************************************)
NoCall == [fn |-> "none", args |-> <<>>, done |-> TRUE, result |-> Returned(<<>>)]

\* a call about to be made
Pending(fn, args) == [fn |-> fn, args |-> args, done |-> FALSE, result |-> Returned(<<>>)]

LossesArgs ==
    {SInt(-115), SInt(0), SInt(115), SInt(230)}         \* voltage_kV
        \X {SInt(-50), SInt(0), SInt(280), SInt(300)}   \* power_MVA
        \X {SInt(-9), SInt(0), SInt(9), SInt(15), SInt(400)}  \* resistance_ohm

LossesCall ==
    /\ call.fn = "calculate_power_losses"
    /\ ~call.done
    /\ call' = [call EXCEPT !.done = TRUE,
                            !.result = calculate_power_losses(
                                           call.args[1], call.args[2], call.args[3])]
    /\ UNCHANGED <<analyzer, log, clock, session, run>>

RegulationArgs ==
    {SInt(0), SInt(9)}                                  \* R_ohm
        \X {SFrac(18, 100)}                             \* L_H
        \X {SInt(0), SFrac(215, 100000000)}             \* C_F
        \X {SInt(0), SInt(180)}                         \* length_km
        \X {SInt(0), SInt(230)}                         \* V_R_kV
        \X {SInt(-50), SInt(0), SInt(280)}              \* S_R_MVA
        \X {SFrac(98, 100), SInt(1)}                    \* pf_R
        \X BOOLEAN                                      \* lagging

RegulationCall ==
    /\ call.fn = "calculate_voltage_regulation"
    /\ ~call.done
    /\ call' = [call EXCEPT !.done = TRUE,
                            !.result = calculate_voltage_regulation(
                                           call.args[1], call.args[2], call.args[3],
                                           call.args[4], call.args[5], call.args[6],
                                           call.args[7], call.args[8])]
    /\ UNCHANGED <<analyzer, log, clock, session, run>>

\* The disruptive voltage of the reference geometry (radius 1 cm, DMG 100 cm, smooth
\* conductor, 25 degrees C, 1 atm), and the nominal voltage that puts the safety margin
\* of that geometry at exactly m percent: V_op = Vd / (1 + m/100), V = sqrt(3) * V_op.
ReferenceVd ==
    DisruptiveVoltage(SInt(1), SInt(100), SInt(1), AirDensity(SInt(25), SInt(1))).v

MarginVoltage(m) == SMul(Sqrt3, SDiv(ReferenceVd, SFrac(100 + m, 100)))

CoronaArgs ==
    {SInt(0), SInt(115), SInt(230), MarginVoltage(10), MarginVoltage(20)}  \* V_nominal_kV
        \X {SInt(0), SInt(1), SInt(2)}                  \* conductor_radius_cm
        \X {SInt(-100), SInt(0), SInt(1), SInt(100), SInt(200), SInt(400)} \* DMG_cm
        \X {SInt(1), SFrac(85, 100)}                    \* roughness_factor
        \X {SInt(25), SInt(-273), SInt(-300)}           \* temp_C
        \X {SInt(1)}                                    \* pressure_atm

CoronaCall ==
    /\ call.fn = "verify_corona_effect"
    /\ ~call.done
    /\ call' = [call EXCEPT !.done = TRUE,
                            !.result = verify_corona_effect(
                                           call.args[1], call.args[2], call.args[3],
                                           call.args[4], call.args[5], call.args[6])]
    /\ UNCHANGED <<analyzer, log, clock, session, run>>

ValidateArgs ==
    {SInt(100), SInt(230)}                              \* voltage_kV
        \X {SInt(0), SInt(280)}                         \* power_MVA
        \X {SInt(-5), SInt(0), SInt(180)}               \* length_km
        \X {SInt(0), SInt(9)}                           \* resistance_ohm
        \X {SFrac(18, 100)}                             \* inductance_H
        \X {SFrac(215, 100)}                            \* capacitance_uF
        \X {SFrac(6, 10), SFrac(98, 100)}               \* power_factor
        \X {SFrac(1, 2), SInt(2), SInt(100)}            \* radius_cm
        \X {SInt(1), SInt(100)}                         \* DMG_cm

ValidateCall ==
    /\ call.fn = "validate_input_data"
    /\ ~call.done
    /\ call' = [call EXCEPT !.done = TRUE,
                            !.result = Returned(validate_input_data(
                                           call.args[1], call.args[2], call.args[3],
                                           call.args[4], call.args[5], call.args[6],
                                           call.args[7], call.args[8], call.args[9]))]
    /\ UNCHANGED <<analyzer, log, clock, session, run>>

(***************************************************************************)
(* TransmissionLineAnalyzer.__init__ and generate_performance_analysis     *)
(***************************************************************************)
\* Python dicts are functions on strings
EmptyDict == [key \in {} |-> key]

Has(dict, key) == key \in DOMAIN dict

Put(dict, key, value) == (key :> value) @@ dict

\* __init__: self.results_history = []
TransmissionLineAnalyzer == [results_history |-> <<>>]

\* a report whose corona model reads the regulation model's result: it is skipped,
\* and its section repeats the regulation's, when the regulation failed
PerformanceReportChained(line_params, operating_conditions, environmental_conditions, now) ==
    LET Result(losses_analysis, regulation_analysis, corona_analysis) ==
            Returned([losses     |-> losses_analysis.val,
                      regulation |-> regulation_analysis.val,
                      corona     |-> IF "error" \in DOMAIN regulation_analysis.val
                                     THEN regulation_analysis.val
                                     ELSE corona_analysis.val,
                      timestamp  |-> now])
    IN  Result(calculate_power_losses(operating_conditions["reception_voltage_kV"],
                                      operating_conditions["reception_power_MVA"],
                                      line_params["resistance_total_ohm"]),
               calculate_voltage_regulation(
                   line_params["resistance_total_ohm"], line_params["inductance_total_H"],
                   line_params["capacitance_total_F"], line_params["length_km"],
                   operating_conditions["reception_voltage_kV"],
                   operating_conditions["reception_power_MVA"],
                   operating_conditions["power_factor"], TRUE),
               verify_corona_effect(
                   operating_conditions["reception_voltage_kV"],
                   line_params["conductor_radius_cm"], line_params["DMG_cm"],
                   environmental_conditions["roughness_factor"],
                   environmental_conditions["temperature_C"],
                   environmental_conditions["pressure_atm"]))

\* a report whose regulation model is given the flag "lagging" of the operating
\* conditions when they hold one
PerformanceReportWithFlag(line_params, operating_conditions, environmental_conditions, now) ==
    LET Result(losses_analysis, regulation_analysis, corona_analysis) ==
            Returned([losses     |-> losses_analysis.val,
                      regulation |-> regulation_analysis.val,
                      corona     |-> corona_analysis.val,
                      timestamp  |-> now])
    IN  Result(calculate_power_losses(operating_conditions["reception_voltage_kV"],
                                      operating_conditions["reception_power_MVA"],
                                      line_params["resistance_total_ohm"]),
               calculate_voltage_regulation(
                   line_params["resistance_total_ohm"], line_params["inductance_total_H"],
                   line_params["capacitance_total_F"], line_params["length_km"],
                   operating_conditions["reception_voltage_kV"],
                   operating_conditions["reception_power_MVA"],
                   operating_conditions["power_factor"],
                   IF "lagging" \in DOMAIN operating_conditions
                   THEN operating_conditions["lagging"] ELSE TRUE),
               verify_corona_effect(
                   operating_conditions["reception_voltage_kV"],
                   line_params["conductor_radius_cm"], line_params["DMG_cm"],
                   environmental_conditions["roughness_factor"],
                   environmental_conditions["temperature_C"],
                   environmental_conditions["pressure_atm"]))

\* The dict the method returns at time `now`, or the exception it raises: a
\* sub-analysis that raised would end the call, there being no try block around
\* the three calls.  calculate_voltage_regulation is called without `lagging`,
\* which is then True.
PerformanceReport(line_params, operating_conditions, environmental_conditions, now) ==
    LET R_ohm     == line_params["resistance_total_ohm"]
        L_H       == line_params["inductance_total_H"]
        C_F       == line_params["capacitance_total_F"]
        length_km == line_params["length_km"]
        radius_cm == line_params["conductor_radius_cm"]
        DMG_cm    == line_params["DMG_cm"]
        V_R_kV    == operating_conditions["reception_voltage_kV"]
        S_R_MVA   == operating_conditions["reception_power_MVA"]
        pf_R      == operating_conditions["power_factor"]
        roughness_factor == environmental_conditions["roughness_factor"]
        temp_C           == environmental_conditions["temperature_C"]
        pressure_atm     == environmental_conditions["pressure_atm"]
        Result(losses_analysis, regulation_analysis, corona_analysis) ==
            IF losses_analysis.raised THEN losses_analysis
            ELSE IF regulation_analysis.raised THEN regulation_analysis
            ELSE IF corona_analysis.raised THEN corona_analysis
            ELSE Returned([losses     |-> losses_analysis.val,
                           regulation |-> regulation_analysis.val,
                           corona     |-> corona_analysis.val,
                           timestamp  |-> now])
    IN  Result(calculate_power_losses(V_R_kV, S_R_MVA, R_ohm),
               calculate_voltage_regulation(
                   R_ohm, L_H, C_F, length_km, V_R_kV, S_R_MVA, pf_R, TRUE),
               verify_corona_effect(
                   V_R_kV, radius_cm, DMG_cm, roughness_factor, temp_C, pressure_atm))

\* a method that stamps the dict it was given
generate_performance_analysis_in_place(self, line_params, operating_conditions, environmental_conditions, now) ==
    [result |-> PerformanceReport(line_params, operating_conditions,
                                  environmental_conditions, now),
     self |-> self,
     line_params |-> Put(line_params, "timestamp", now),
     operating_conditions |-> operating_conditions,
     environmental_conditions |-> environmental_conditions]

\* One call on the analyzer `self` at time `now`: what it returns or raises, the
\* analyzer after it, and the three argument dicts after it (dicts are passed by
\* reference).  The method reads its arguments and writes nothing: neither self,
\* results_history included, nor a dict it was given.
generate_performance_analysis(self, line_params, operating_conditions, environmental_conditions, now) ==
    [result |-> PerformanceReport(line_params, operating_conditions,
                                  environmental_conditions, now),
     self |-> self,
     line_params |-> line_params,
     operating_conditions |-> operating_conditions,
     environmental_conditions |-> environmental_conditions]

(***************************************************************************)
(* Direct calls of generate_performance_analysis on one analyzer.          *)
(***************************************************************************)
\* the number of generate_performance_analysis calls the model follows
MaxCalls == 3

LineParams(R_ohm, C_F, length_km, radius_cm, DMG_cm) ==
    [resistance_total_ohm |-> R_ohm, inductance_total_H |-> SFrac(18, 100),
     capacitance_total_F |-> C_F, length_km |-> length_km,
     conductor_radius_cm |-> radius_cm, DMG_cm |-> DMG_cm]

OperatingConditions(V_R_kV, S_R_MVA, pf_R) ==
    [reception_voltage_kV |-> V_R_kV, reception_power_MVA |-> S_R_MVA,
     power_factor |-> pf_R]

EnvironmentalConditions(roughness_factor, temp_C, pressure_atm) ==
    [roughness_factor |-> roughness_factor, temperature_C |-> temp_C,
     pressure_atm |-> pressure_atm]

NominalLine == LineParams(SInt(9), SFrac(215, 100000000), SInt(180), SInt(1), SInt(100))

NominalOperation == OperatingConditions(SInt(230), SInt(280), SFrac(98, 100))

NominalEnvironment == EnvironmentalConditions(SFrac(85, 100), SInt(25), SInt(1))

\* the nominal arguments, and arguments that break one model's precondition or more
EngineArgs ==
    { <<NominalLine, NominalOperation, NominalEnvironment>>,
      <<[NominalLine EXCEPT !.length_km = SInt(0)], NominalOperation, NominalEnvironment>>,
      <<[NominalLine EXCEPT !.conductor_radius_cm = SInt(0)], NominalOperation,
        NominalEnvironment>>,
      <<[NominalLine EXCEPT !.length_km = SInt(0), !.conductor_radius_cm = SInt(0)],
        NominalOperation, NominalEnvironment>>,
      <<[NominalLine EXCEPT !.capacitance_total_F = SInt(0)], NominalOperation,
        NominalEnvironment>>,
      <<NominalLine, [NominalOperation EXCEPT !.reception_voltage_kV = SInt(0)],
        NominalEnvironment>>,
      <<NominalLine, Put(NominalOperation, "lagging", FALSE), NominalEnvironment>>,
      <<NominalLine, NominalOperation,
        [NominalEnvironment EXCEPT !.temperature_C = SInt(-273)]>> }

LogEntry(before, out, now) ==
    [line_params |-> before[1], operating_conditions |-> before[2],
     environmental_conditions |-> before[3], now |-> now,
     after |-> <<out.line_params, out.operating_conditions, out.environmental_conditions>>,
     result |-> out.result]

Analyze ==
    LET Called(args, out) ==
            /\ analyzer' = out.self
            /\ log' = Append(log, LogEntry(args, out, clock))
    IN  /\ Len(log) < MaxCalls
        /\ \E args \in EngineArgs :
               Called(args, generate_performance_analysis(
                                analyzer, args[1], args[2], args[3], clock))
        /\ clock' = clock + 1
        /\ UNCHANGED <<call, session, run>>

(***************************************************************************)
(* main(): one run of the Streamlit script, in two steps.  MainValidate is *)
(* the run up to st.stop() or past it; MainAnalyze is the rest of the run. *)
(***************************************************************************)
\* what the sidebar widgets can hold: each value is within its widget's range
Widgets ==
    [length_km : {SInt(180)}, radius_cm : {SFrac(1, 2), SInt(1)},
     DMG_cm : {SInt(100)}, R_ohm : {SInt(9)}, L_H : {SFrac(18, 100)},
     C_uF : {SFrac(215, 100)}, voltage_kV : {SInt(115), SInt(230)},
     power_MVA : {SInt(280)}, power_factor : {SFrac(98, 100)}, temp_C : {SInt(25)},
     pressure_atm : {SInt(1)}, roughness_factor : {SFrac(85, 100)}]

\* a script that makes a new analyzer in every run
NewAnalyzerEveryRun(state) ==
    [state |-> Put(state, "analyzer", TransmissionLineAnalyzer), created |-> TRUE]

\* if 'analyzer' not in st.session_state: st.session_state.analyzer =
\* TransmissionLineAnalyzer().  The session state after it, and whether an analyzer
\* was created.
SessionWithAnalyzer(state) ==
    IF Has(state, "analyzer")
    THEN [state |-> state, created |-> FALSE]
    ELSE [state |-> Put(state, "analyzer", TransmissionLineAnalyzer), created |-> TRUE]

\* from the start of main() to the end of the validation block: the analyzer is
\* created when the session holds none, the widgets are read and validated, and
\* st.stop() ends the run when validation returned errors
MainValidate ==
    LET Validated(w, v) ==
            /\ call' = [fn |-> "validate_input_data",
                        args |-> <<w.voltage_kV, w.power_MVA, w.length_km, w.R_ohm,
                                   w.L_H, w.C_uF, w.power_factor, w.radius_cm, w.DMG_cm>>,
                        done |-> TRUE, result |-> Returned(v)]
            /\ run' = [pc |-> IF v.errors # <<>> THEN "stopped" ELSE "validated",
                       widgets |-> w, errors |-> v.errors, warnings |-> v.warnings,
                       button |-> FALSE,
                       created |-> SessionWithAnalyzer(session).created]
    IN  /\ run.pc \in {"idle", "stopped", "done"}
        /\ session' = SessionWithAnalyzer(session).state
        /\ \E w \in Widgets :
               Validated(w, validate_input_data(
                                w.voltage_kV, w.power_MVA, w.length_km, w.R_ohm, w.L_H,
                                w.C_uF, w.power_factor, w.radius_cm, w.DMG_cm))
        /\ UNCHANGED <<analyzer, log, clock>>

\* line_params, operating_conditions and environmental_conditions as the button's
\* block builds them from the widgets
WidgetLine(w) ==
    [resistance_total_ohm |-> w.R_ohm, inductance_total_H |-> w.L_H,
     capacitance_total_F |-> SMul(w.C_uF, SFrac(1, 1000000)), length_km |-> w.length_km,
     conductor_radius_cm |-> w.radius_cm, DMG_cm |-> w.DMG_cm,
     voltage_kV |-> w.voltage_kV]

WidgetOperation(w) ==
    [reception_voltage_kV |-> w.voltage_kV, reception_power_MVA |-> w.power_MVA,
     power_factor |-> w.power_factor]

WidgetEnvironment(w) ==
    [roughness_factor |-> w.roughness_factor, temperature_C |-> w.temp_C,
     pressure_atm |-> w.pressure_atm]

\* the rest of the run: when the button was pressed, the analysis is made on the
\* session's analyzer and its result and line_params are stored in the session;
\* what follows only reads the session
MainAnalyze ==
    LET Called(args, out) ==
            /\ session' = IF out.result.raised
                          THEN Put(session, "analyzer", out.self)
                          ELSE Put(Put(Put(session, "analyzer", out.self),
                                       "results", out.result.val),
                                   "line_params", out.line_params)
            /\ log' = Append(log, LogEntry(args, out, clock))
            /\ clock' = clock + 1
            /\ run' = [run EXCEPT !.pc = "done", !.button = TRUE]
        Pressed(args) ==
            Called(args, generate_performance_analysis(
                             session["analyzer"], args[1], args[2], args[3], clock))
    IN  /\ run.pc = "validated"
        /\ \E pressed \in BOOLEAN :
               IF pressed /\ Len(log) < MaxCalls
               THEN Pressed(<<WidgetLine(run.widgets), WidgetOperation(run.widgets),
                              WidgetEnvironment(run.widgets)>>)
               ELSE /\ run' = [run EXCEPT !.pc = "done"]
                    /\ UNCHANGED <<session, log, clock>>
        /\ UNCHANGED <<call, analyzer>>

Quiet ==
    /\ analyzer = TransmissionLineAnalyzer
    /\ log = <<>>
    /\ clock = 0
    /\ session = EmptyDict
    /\ run = [pc |-> "idle"]

\* the engine: a new analyzer, and no call made yet
Init == call = NoCall /\ Quiet

Next == Analyze

Spec == Init /\ [][Next]_vars

\* the functions on their own: one call, of any function on any of its arguments
InitFn ==
    /\ call \in {Pending("calculate_power_losses", a) : a \in LossesArgs}
                \cup {Pending("calculate_voltage_regulation", a) : a \in RegulationArgs}
                \cup {Pending("verify_corona_effect", a) : a \in CoronaArgs}
                \cup {Pending("validate_input_data", a) : a \in ValidateArgs}
    /\ Quiet

NextFn == LossesCall \/ RegulationCall \/ CoronaCall \/ ValidateCall

SpecFn == InitFn /\ [][NextFn]_vars

\* the application: a new session, and at most one direct call of validate_input_data
ValidateGateArgs ==
    {a \in ValidateArgs : /\ a[1] = SInt(230) /\ a[2] = SInt(280) /\ a[4] = SInt(9)
                          /\ a[7] = SFrac(98, 100)}

InitApp ==
    /\ call \in {NoCall} \cup {Pending("validate_input_data", a) : a \in ValidateGateArgs}
    /\ Quiet

NextApp == MainValidate \/ MainAnalyze \/ ValidateCall

SpecApp == InitApp /\ [][NextApp]_vars

(***************************************************************************)
(* Properties.                                                             *)
(***************************************************************************)
\* the direct call of fn has been made
Done(fn) == call.fn = fn /\ call.done

\* the float x is exactly the integer n
XIs(x, n) == x.k = "fin" /\ SEq(x.v, SInt(n))

\* the float x is finite and within tol of the rational n / d
Within(x, n, d, tol) ==
    /\ x.k = "fin"
    /\ SLeq(SSub(x.v, SFrac(n, d)), tol)
    /\ SLeq(SSub(SFrac(n, d), x.v), tol)

IsPrefix(s, t) == Len(s) <= Len(t) /\ \A i \in 1..Len(s) : s[i] = t[i]

\* C1: after n calls of generate_performance_analysis on a new analyzer,
\* results_history holds the n reports returned, in call order (so its last
\* entry is the report the last call returned).
HistoryHoldsEveryReport ==
    /\ Len(analyzer.results_history) = Len(log)
    /\ \A i \in 1..Len(log) : analyzer.results_history[i] = log[i].result.val

\* what calculate_voltage_regulation and verify_corona_effect compute inside
\* their try blocks on the arguments of the logged call e
RegulationOf(e) ==
    RegulationTry(e.line_params["resistance_total_ohm"],
                  e.line_params["inductance_total_H"],
                  e.line_params["capacitance_total_F"],
                  e.line_params["length_km"],
                  e.operating_conditions["reception_voltage_kV"],
                  e.operating_conditions["reception_power_MVA"],
                  e.operating_conditions["power_factor"], TRUE)

LossesOf(e) ==
    IF SSign(e.operating_conditions["reception_voltage_kV"]) <= 0
    THEN Returned(InvalidVoltageResult)
    ELSE LossesTry(e.operating_conditions["reception_voltage_kV"],
                   e.operating_conditions["reception_power_MVA"],
                   e.line_params["resistance_total_ohm"])

CoronaOf(e) ==
    CoronaTry(e.operating_conditions["reception_voltage_kV"],
              e.line_params["conductor_radius_cm"], e.line_params["DMG_cm"],
              e.environmental_conditions["roughness_factor"],
              e.environmental_conditions["temperature_C"],
              e.environmental_conditions["pressure_atm"])

\* a section is the body's result, or an error message when the body raised
SectionOf(section, body) ==
    IF body.raised THEN DOMAIN section = {"error"} ELSE section = body.val

\* C2: no call of generate_performance_analysis raises; each returns a report
\* with the sections losses, regulation and corona and a timestamp, in which a
\* section whose computation raised an arithmetic exception carries an error
\* message and every other section holds its normally computed result.  (It
\* is stated of the last call made: every call is the last one of some state.)
SubAnalysesAreIndependent ==
    Len(log) > 0
        => /\ ~log[Len(log)].result.raised
           /\ DOMAIN log[Len(log)].result.val
                  = {"losses", "regulation", "corona", "timestamp"}
           /\ SectionOf(log[Len(log)].result.val.regulation, RegulationOf(log[Len(log)]))
           /\ SectionOf(log[Len(log)].result.val.corona, CoronaOf(log[Len(log)]))
           /\ SectionOf(log[Len(log)].result.val.losses, LossesOf(log[Len(log)]))

\* a call whose regulation model raised (length_km = 0) while its corona model
\* did not, and a call the other way round (conductor radius 0)
OneSectionFailed ==
    \E i \in 1..Len(log) : \E j \in 1..Len(log) :
        /\ ~log[i].result.raised /\ ~log[j].result.raised
        /\ SIsZero(log[i].line_params["length_km"])
        /\ "error" \in DOMAIN log[i].result.val.regulation
        /\ "risk_level" \in DOMAIN log[i].result.val.corona
        /\ SIsZero(log[j].line_params["conductor_radius_cm"])
        /\ "error" \in DOMAIN log[j].result.val.corona
        /\ "regulation_%" \in DOMAIN log[j].result.val.regulation

\* C3: for voltage_kV <= 0, calculate_power_losses returns, without raising,
\* a result whose current_A, losses_MW and efficiency_% are exactly 0, and
\* nothing that the current or loss arithmetic computes (no losses_W, no
\* losses_percentage, no current density).
InvalidVoltageGivesZeros ==
    (Done("calculate_power_losses") /\ SSign(call.args[1]) <= 0)
        => /\ ~call.result.raised
           /\ DOMAIN call.result.val = {"current_A", "losses_MW", "efficiency_%", "error"}
           /\ call.result.val["current_A"] = Fin(SInt(0))
           /\ call.result.val["losses_MW"] = Fin(SInt(0))
           /\ call.result.val["efficiency_%"] = Fin(SInt(0))
           /\ call.result.val["error"] = "Voltaje inválido"

InvalidVoltageCalled ==
    /\ Done("calculate_power_losses")
    /\ SSign(call.args[1]) < 0
    /\ SSign(call.args[2]) > 0
    /\ SSign(call.args[3]) > 0
    /\ call.result.val["error"] = "Voltaje inválido"

\* x <= y on floats: false when either is nan
XLeq(x, y) == XGreater(y, x) \/ XEq(x, y)

\* C4: the risk level is decided by the safety margin alone: a margin > 20
\* gives Low, 10 < margin <= 20 gives Medium, margin <= 10 gives High, each
\* with its own recommendation; so a margin of exactly 20 is Medium and a
\* margin of exactly 10 is High.
RiskFollowsMargin ==
    (Done("verify_corona_effect") /\ "risk_level" \in DOMAIN call.result.val)
        => LET m == call.result.val["safety_margin_%"]
               r == call.result.val
           IN  /\ XGreater(m, Fin(SInt(20)))
                     => /\ r["risk_level"] = "Riesgo Bajo"
                        /\ r["recommendation"] = "Operación segura sin riesgo de corona"
               /\ (XGreater(m, Fin(SInt(10))) /\ XLeq(m, Fin(SInt(20))))
                     => /\ r["risk_level"] = "Riesgo Medio"
                        /\ r["recommendation"] = "Monitorear condiciones atmosféricas"
               /\ XLeq(m, Fin(SInt(10)))
                     => /\ r["risk_level"] = "Riesgo Alto"
                        /\ r["recommendation"]
                               = "Considerar rediseño o cambio de conductor"

MarginExactlyTwenty ==
    /\ Done("verify_corona_effect")
    /\ "risk_level" \in DOMAIN call.result.val
    /\ XEq(call.result.val["safety_margin_%"], Fin(SInt(20)))
    /\ call.result.val["risk_level"] = "Riesgo Medio"

\* C5, as stated: for resistance_ohm = 0 and power_MVA > 0, whatever the
\* voltage, the result has losses_MW = 0 and efficiency_% = 100.
NoResistanceNoLosses ==
    (Done("calculate_power_losses") /\ SIsZero(call.args[3]) /\ SSign(call.args[2]) > 0)
        => /\ XIs(call.result.val["losses_MW"], 0)
           /\ XIs(call.result.val["efficiency_%"], 100)

\* C5, amended: for resistance_ohm = 0, power_MVA > 0 and voltage_kV > 0 the
\* result has losses_MW = 0 and efficiency_% = 100.
NoResistanceNoLossesAtValidVoltage ==
    (Done("calculate_power_losses") /\ SIsZero(call.args[3]) /\ SSign(call.args[2]) > 0
        /\ SSign(call.args[1]) > 0)
        => /\ ~call.result.raised
           /\ XIs(call.result.val["losses_MW"], 0)
           /\ XIs(call.result.val["efficiency_%"], 100)

NoResistanceCalled ==
    /\ Done("calculate_power_losses")
    /\ SIsZero(call.args[3])
    /\ SSign(call.args[2]) > 0
    /\ SSign(call.args[1]) > 0
    /\ XIs(call.result.val["efficiency_%"], 100)

ExampleCalled ==
    /\ Done("calculate_power_losses")
    /\ call.args = <<SInt(230), SInt(300), SInt(15)>>

\* C6, as stated: for voltage_kV = 230, power_MVA = 300, resistance_ohm = 15
\* the result has current_A = 752.77, losses_MW = 25.51 and efficiency_% =
\* 91.50, each to two decimals (read generously: within 0.01).
ExampleAsStated ==
    ExampleCalled
        => /\ Within(call.result.val["current_A"], 75277, 100, SFrac(1, 100))
           /\ Within(call.result.val["losses_MW"], 2551, 100, SFrac(1, 100))
           /\ Within(call.result.val["efficiency_%"], 9150, 100, SFrac(1, 100))

\* C6, amended: for voltage_kV = 230, power_MVA = 300, resistance_ohm = 15 the
\* result has current_A = 753.07, losses_MW = 25.52 and efficiency_% = 91.49,
\* each rounded to two decimals (within 0.005).
ExampleToTwoDecimals ==
    ExampleCalled
        => /\ ~call.result.raised
           /\ Within(call.result.val["current_A"], 75307, 100, SFrac(5, 1000))
           /\ Within(call.result.val["losses_MW"], 2552, 100, SFrac(5, 1000))
           /\ Within(call.result.val["efficiency_%"], 9149, 100, SFrac(5, 1000))

ExampleComputed ==
    /\ ExampleCalled
    /\ Within(call.result.val["losses_W"], 25519849, 1, SInt(1))

\* the result returned when the full-load receiving voltage is zero: regulation
\* +inf, voltage drop 0, and no message of an arithmetic failure
IsInvalidReception(r) ==
    /\ ~r.raised
    /\ DOMAIN r.val = {"regulation_%", "voltage_drop_kV", "error"}
    /\ r.val["regulation_%"] = Inf(1)
    /\ XIs(r.val["voltage_drop_kV"], 0)
    /\ r.val["error"] = "Voltaje de recepción inválido"

NoPowerGivesZeroEfficiency ==
    (Done("calculate_power_losses") /\ SSign(call.args[1]) > 0
        /\ SSign(call.args[2]) <= 0)
        => /\ ~call.result.raised
           /\ "error" \notin DOMAIN call.result.val
           /\ call.result.val["efficiency_%"] = Fin(SInt(0))
           /\ call.result.val["losses_percentage"] = Fin(SInt(0))

NoPowerCalled ==
    /\ Done("calculate_power_losses")
    /\ SSign(call.args[1]) > 0
    /\ SSign(call.args[2]) < 0
    /\ SSign(call.args[3]) > 0
    /\ call.result.val["losses_percentage"] = Fin(SInt(0))

\* the arguments main() validates, of the widgets w
ValidatedArgs(w) ==
    <<w.voltage_kV, w.power_MVA, w.length_km, w.R_ohm, w.L_H, w.C_uF,
      w.power_factor, w.radius_cm, w.DMG_cm>>

\* C9: in the application, generate_performance_analysis is called only in a
\* run in which validate_input_data returned no error for the widgets' values,
\* and on those values; validate_input_data returns an error whenever
\* DMG_cm <= radius_cm or length_km <= 0; so no call made through the
\* application has DMG_cm <= conductor_radius_cm or length_km <= 0.
ValidationGatesEngine ==
    /\ (run.pc = "done" /\ run.button)
          => /\ run.errors = <<>>
             /\ call = [fn |-> "validate_input_data", args |-> ValidatedArgs(run.widgets),
                        done |-> TRUE,
                        result |-> Returned([errors |-> <<>>, warnings |-> run.warnings])]
             /\ log[Len(log)].line_params = WidgetLine(run.widgets)
             /\ log[Len(log)].operating_conditions = WidgetOperation(run.widgets)
             /\ log[Len(log)].environmental_conditions = WidgetEnvironment(run.widgets)
    /\ (Done("validate_input_data")
            /\ (SLeq(call.args[9], call.args[8]) \/ SSign(call.args[3]) <= 0))
          => call.result.val.errors # <<>>
    /\ \A i \in 1..Len(log) :
          /\ SLess(log[i].line_params["conductor_radius_cm"], log[i].line_params["DMG_cm"])
          /\ SSign(log[i].line_params["length_km"]) > 0

AnalyzedAfterValidation ==
    /\ run.pc = "done"
    /\ run.button
    /\ Len(log) > 0
    /\ call.fn = "validate_input_data"
    /\ call.result.val.errors = <<>>

\* C10: a call of generate_performance_analysis leaves its three argument
\* dicts as they were and changes nothing of the analyzer but results_history,
\* to which it may only append; and no step removes, reorders or modifies an
\* entry of results_history.
AnalyzeFrame ==
    [][/\ IsPrefix(analyzer.results_history, analyzer'.results_history)
       /\ DOMAIN analyzer' = DOMAIN analyzer
       /\ Len(log') > Len(log)
             => LET e == log'[Len(log')]
                IN  e.after = <<e.line_params, e.operating_conditions,
                                e.environmental_conditions>>]_vars

AnalyzedArgumentsKept ==
    /\ Len(log) > 0
    /\ log[Len(log)].after = <<log[Len(log)].line_params,
                               log[Len(log)].operating_conditions,
                               log[Len(log)].environmental_conditions>>
    /\ ~log[Len(log)].result.raised

\* what each model is given of the arguments of the logged call e
LossesInputs(e) ==
    <<e.operating_conditions["reception_voltage_kV"],
      e.operating_conditions["reception_power_MVA"],
      e.line_params["resistance_total_ohm"]>>

RegulationInputs(e) ==
    <<e.line_params["resistance_total_ohm"], e.line_params["inductance_total_H"],
      e.line_params["capacitance_total_F"], e.line_params["length_km"],
      e.operating_conditions["reception_voltage_kV"],
      e.operating_conditions["reception_power_MVA"],
      e.operating_conditions["power_factor"]>>

CoronaInputs(e) ==
    <<e.operating_conditions["reception_voltage_kV"],
      e.line_params["conductor_radius_cm"], e.line_params["DMG_cm"],
      e.environmental_conditions["roughness_factor"],
      e.environmental_conditions["temperature_C"],
      e.environmental_conditions["pressure_atm"]>>

\* the report r without its timestamp
Sections(r) == <<r.losses, r.regulation, r.corona>>

\* an analyzer in another state than the one that was called: it holds the
\* report r in its history
OtherAnalyzers(r) == {[results_history |-> <<r>>]}

\* C11: the models are functions of their own arguments.  Of any two calls of
\* generate_performance_analysis made so far, whatever was called between them,
\* the losses sections are equal when the losses arguments are, the regulation
\* sections when the regulation arguments are and the corona sections when the
\* corona arguments are (so equal inputs give reports equal but for the
\* timestamp, and no section depends on another model's arguments or result);
\* and the last call gives the same three sections on any other analyzer at
\* any other time.
ModelsArePure ==
    /\ \A i \in 1..Len(log) : \A j \in 1..Len(log) :
           /\ ~log[i].result.raised
           /\ ~log[j].result.raised
           /\ LossesInputs(log[i]) = LossesInputs(log[j])
                 => log[i].result.val.losses = log[j].result.val.losses
           /\ RegulationInputs(log[i]) = RegulationInputs(log[j])
                 => log[i].result.val.regulation = log[j].result.val.regulation
           /\ CoronaInputs(log[i]) = CoronaInputs(log[j])
                 => log[i].result.val.corona = log[j].result.val.corona
    /\ Len(log) > 0
          => LET e == log[Len(log)]
             IN  \A self \in OtherAnalyzers(e.result.val) :
                     LET out == generate_performance_analysis(
                                    self, e.line_params, e.operating_conditions,
                                    e.environmental_conditions, e.now + 1).result
                     IN  /\ ~out.raised
                         /\ Sections(out.val) = Sections(e.result.val)
                         /\ out.val.timestamp # e.result.val.timestamp

\* the same inputs analyzed twice with another call between, itself on inputs
\* that differ from them in the regulation arguments only (length_km)
EqualInputsAnalyzedTwice ==
    /\ Len(log) = 3
    /\ \A i \in 1..3 : ~log[i].result.raised
    /\ <<log[1].line_params, log[1].operating_conditions, log[1].environmental_conditions>>
           = <<log[3].line_params, log[3].operating_conditions,
               log[3].environmental_conditions>>
    /\ Sections(log[1].result.val) = Sections(log[3].result.val)
    /\ log[1].result.val.timestamp # log[3].result.val.timestamp
    /\ LossesInputs(log[2]) = LossesInputs(log[1])
    /\ CoronaInputs(log[2]) = CoronaInputs(log[1])
    /\ RegulationInputs(log[2]) # RegulationInputs(log[1])
    /\ log[2].result.val.regulation # log[1].result.val.regulation
    /\ "regulation_%" \in DOMAIN log[1].result.val.regulation

\* the corona call made satisfies the preconditions stated for the conductor
\* and the environment: positive roughness, pressure and radius, DMG_cm > radius
CoronaCalledInRange ==
    /\ Done("verify_corona_effect")
    /\ SSign(call.args[4]) > 0
    /\ SSign(call.args[6]) > 0
    /\ SSign(call.args[2]) > 0
    /\ SLess(call.args[2], call.args[3])

\* the spacings of the corona arguments that are larger than DMG_cm
LargerDMG(DMG_cm) == {d \in {a[3] : a \in CoronaArgs} : SLess(DMG_cm, d)}

\* the result of the corona call made, had its DMG_cm been d
CoronaAtDMG(d) ==
    verify_corona_effect(call.args[1], call.args[2], d, call.args[4], call.args[5],
                         call.args[6]).val

\* against the result r, the result s at a larger spacing has a strictly larger
\* disruptive voltage and no corona when r has none
LargerSpacingRaisesVd(r, s) ==
    /\ "critical_disruptive_voltage_kV" \in DOMAIN r
    /\ "critical_disruptive_voltage_kV" \in DOMAIN s
    /\ XGreater(s["critical_disruptive_voltage_kV"], r["critical_disruptive_voltage_kV"])
    /\ ~r["corona_probable"] => ~s["corona_probable"]

\* C12, as stated: with positive roughness, pressure and radius and
\* DMG_cm > radius, whatever the temperature, a larger DMG_cm gives a strictly
\* larger critical_disruptive_voltage_kV, and no corona once there is none.
DisruptiveVoltageGrowsWithDMG ==
    CoronaCalledInRange
        => \A d \in LargerDMG(call.args[3]) :
               LargerSpacingRaisesVd(call.result.val, CoronaAtDMG(d))

\* C12, amended: with positive roughness, pressure and radius, DMG_cm > radius
\* and a temperature above -273 degrees C, a larger DMG_cm gives a strictly
\* larger critical_disruptive_voltage_kV, and no corona once there is none.
DisruptiveVoltageGrowsWithDMGAboveZeroKelvin ==
    (CoronaCalledInRange /\ SSign(SAdd(SInt(273), call.args[5])) > 0)
        => \A d \in LargerDMG(call.args[3]) :
               LargerSpacingRaisesVd(call.result.val, CoronaAtDMG(d))

\* a call with corona at its spacing and none at a larger one
CoronaEndsAtLargerDMG ==
    /\ CoronaCalledInRange
    /\ SSign(SAdd(SInt(273), call.args[5])) > 0
    /\ call.result.val["corona_probable"]
    /\ \E d \in LargerDMG(call.args[3]) : ~CoronaAtDMG(d)["corona_probable"]

\* C13: in every result of verify_corona_effect with V_nominal_kV > 0,
\* corona_probable is true exactly when safety_margin_% is negative, and a
\* result with corona_probable true has the risk level High.
CoronaFieldsAreConsistent ==
    (Done("verify_corona_effect") /\ SSign(call.args[1]) > 0
        /\ "corona_probable" \in DOMAIN call.result.val)
        => /\ call.result.val["corona_probable"]
                 <=> XGreater(Fin(SInt(0)), call.result.val["safety_margin_%"])
           /\ call.result.val["corona_probable"]
                 => call.result.val["risk_level"] = "Riesgo Alto"

\* a call with V_nominal_kV > 0 whose result has corona_probable true, and a negative
\* margin of more than 20 percent
CoronaProbableCalled ==
    /\ Done("verify_corona_effect")
    /\ SSign(call.args[1]) > 0
    /\ "corona_probable" \in DOMAIN call.result.val
    /\ call.result.val["corona_probable"]
    /\ XGreater(Fin(SInt(-20)), call.result.val["safety_margin_%"])
    /\ call.result.val["risk_level"] = "Riesgo Alto"

\* the sign given to arccos(pf_R) in the regulation result reg: -1 lagging, 1 leading
AngleSign(reg) == reg["regulation_%"].v[2][4].sign

\* calculate_voltage_regulation on the regulation arguments of the logged call e
RegulationWith(e, lagging) ==
    calculate_voltage_regulation(
        RegulationInputs(e)[1], RegulationInputs(e)[2], RegulationInputs(e)[3],
        RegulationInputs(e)[4], RegulationInputs(e)[5], RegulationInputs(e)[6],
        RegulationInputs(e)[7], lagging).val

\* the regulation result reg was computed from a current phasor
HasAngle(reg) == "regulation_%" \in DOMAIN reg /\ reg["regulation_%"].k = "term"

\* C14: every report of generate_performance_analysis holds the regulation
\* computed with a lagging power factor (the current at -arccos(pf)), whatever
\* the operating conditions hold, a flag "lagging" set to false included;
\* called with lagging = false on the same arguments,
\* calculate_voltage_regulation puts the current at +arccos(pf).  (It is
\* stated of the last call made: every call is the last one of some state.)
AnalysisIsAlwaysLagging ==
    Len(log) > 0
        => /\ ~log[Len(log)].result.raised
           /\ log[Len(log)].result.val.regulation = RegulationWith(log[Len(log)], TRUE)
           /\ HasAngle(log[Len(log)].result.val.regulation)
                 => /\ AngleSign(log[Len(log)].result.val.regulation) = -1
                    /\ HasAngle(RegulationWith(log[Len(log)], FALSE))
                    /\ AngleSign(RegulationWith(log[Len(log)], FALSE)) = 1

\* a call whose operating conditions hold "lagging": False, and its regulation
LaggingFlagIgnored ==
    \E i \in 1..Len(log) :
        /\ Has(log[i].operating_conditions, "lagging")
        /\ ~log[i].operating_conditions["lagging"]
        /\ ~log[i].result.raised
        /\ HasAngle(log[i].result.val.regulation)
        /\ AngleSign(log[i].result.val.regulation) = -1

ResultsStoredWithLineParams ==
    /\ Has(session, "results") <=> Has(session, "line_params")
    /\ Has(session, "results") <=> Len(log) > 0
    /\ Has(session, "results")
          => /\ session["results"] = log[Len(log)].result.val
             /\ session["line_params"] = log[Len(log)].after[1]

\* a run creates the analyzer only in a session that holds none, and the
\* analyzer a session holds stays in it
AnalyzerCreatedOnce ==
    /\ Has(session, "analyzer")
          => Has(session', "analyzer") /\ session'["analyzer"] = session["analyzer"]
    /\ (run' # run /\ run'.pc \in {"stopped", "validated"} /\ run'.created)
          => ~Has(session, "analyzer")

\* C16: over the runs of main() in one session, the analyzer is created at
\* most once, in a run that finds none in the session, and is kept from
\* then on; and in every state of the session 'results' is present exactly
\* when 'line_params' is, both being those of the same (the last) call of
\* generate_performance_analysis.
SessionIsCoherent == []ResultsStoredWithLineParams /\ [][AnalyzerCreatedOnce]_vars

\* a second analysis stored, by a run that found the analyzer in the session,
\* on other line parameters than the first
SecondAnalysisStored ==
    /\ Len(log) = 2
    /\ run.pc = "done"
    /\ run.button
    /\ ~run.created
    /\ Has(session, "analyzer")
    /\ Has(session, "results")
    /\ session["results"] = log[2].result.val
    /\ session["results"] # log[1].result.val
    /\ session["line_params"] = log[2].after[1]
    /\ log[1].after[1] # log[2].after[1]

====
